---- MODULE Spec2Model ----
(***************************************************************************)
(* A model of app.py of photo_overlay: the text overlay renderer           *)
(* (add_text_to_image), the batch archiver (create_zip_file) and the batch *)
(* loop of main.                                                           *)
(*                                                                         *)
(* Strings are sequences of one-character strings.  An image is a record   *)
(* [mode, size, px] where px maps every pixel <<x, y>> of the canvas to a  *)
(* tuple of channel values.                                                *)
(***************************************************************************)
EXTENDS Integers, Sequences, FiniteSets, TLC

VARIABLES
    call,                \* the arguments of one add_text_to_image call
    env,                 \* what the host gives: installed fonts, text metrics, whether st.image works
    ret,                 \* the outcome of the call
    uploaded_files,      \* main: the files the uploader widget holds
    clear_files,         \* main: st.session_state.clear_files
    pc,                  \* main: position in the script run
    idx,                 \* main: loop index i of the batch loop (1-based)
    image,               \* main: the decoded image of the current iteration
    processed_images,    \* main / create_zip_file: the rendered images
    original_filenames,  \* main / create_zip_file: their file names
    messages,            \* main: st.error / st.success / st.info elements shown
    zip_file             \* the archive: whether it was written, and its entries in order

renderVars == <<call, env, ret>>
mainVars == <<uploaded_files, clear_files, pc, idx, image, messages>>
zipVars == <<processed_images, original_filenames, zip_file>>
vars == <<call, env, ret, uploaded_files, clear_files, pc, idx, image,
          processed_images, original_filenames, messages, zip_file>>

(***************************************************************************)
(* Bounds of the model.                                                    *)
(***************************************************************************)
MaxImgW == 2
MaxImgH == 3
MaxTextW == 2
MaxTextH == 2
MaxBboxTop == 1
MaxOffset == 3
MaxPadding == 1
MaxTileImgW == 64
MaxTileTextW == 4
MaxFiles == 2
MaxUpload == 17

(***************************************************************************)
(* Generic helpers.                                                        *)
(***************************************************************************)
Min(a, b) == IF a < b THEN a ELSE b
Range(s) == {s[k] : k \in DOMAIN s}

\* s[a:b] of Python for 0 <= a <= b: the indices are clamped to the length.
Slice(s, a, b) == SubSeq(s, Min(a, Len(s)) + 1, Min(b, Len(s)))

(***************************************************************************)
(* Images (PIL.Image).                                                     *)
(***************************************************************************)
Pixels(size) == (0..(size[1] - 1)) \X (0..(size[2] - 1))

\* Image.new(mode, size, color)
ImageNew(mode, size, color) ==
    [mode |-> mode, size |-> size, px |-> [p \in Pixels(size) |-> color]]

\* image.copy()
ImageCopy(im) ==
    [mode |-> im.mode, size |-> im.size, px |-> [p \in DOMAIN im.px |-> im.px[p]]]

\* image.convert(mode) between RGB and RGBA
Convert(im, mode) ==
    IF im.mode = mode THEN ImageCopy(im)
    ELSE IF mode = "RGBA"
    THEN [mode |-> "RGBA", size |-> im.size,
          px |-> [p \in DOMAIN im.px |-> Append(im.px[p], 255)]]
    ELSE [mode |-> "RGB", size |-> im.size,
          px |-> [p \in DOMAIN im.px |-> SubSeq(im.px[p], 1, 3)]]

\* The C layer stores a channel as a byte: CLIP8.
Clip8(v) == IF v < 0 THEN 0 ELSE IF v > 255 THEN 255 ELSE v

\* ImageDraw.rectangle([x0, y0, x1, y1], fill): both corners are inclusive and
\* the part outside the canvas is not drawn.
Rectangle(im, xy, fill) ==
    [im EXCEPT !.px =
        [p \in DOMAIN im.px |->
            IF /\ xy[1] <= p[1] /\ p[1] <= xy[3]
               /\ xy[2] <= p[2] /\ p[2] <= xy[4]
            THEN [k \in 1..Len(fill) |-> Clip8(fill[k])]
            ELSE im.px[p]]]

ShiftForDiv255(a) == ((a \div 256) + a) \div 256

\* One pixel of Image.alpha_composite (AlphaComposite.c, 7 precision bits).
BlendPixel(dst, src) ==
    IF src[4] = 0 THEN dst
    ELSE LET blend == dst[4] * (255 - src[4])
             outa255 == src[4] * 255 + blend
             coef1 == (src[4] * 255 * 255 * 128) \div outa255
             coef2 == 255 * 128 - coef1
             ch(k) == ShiftForDiv255(src[k] * coef1 + dst[k] * coef2 + 128 * 128) \div 128
         IN  <<ch(1), ch(2), ch(3), ShiftForDiv255(outa255 + 128)>>

\* Image.alpha_composite(dst, src) for two RGBA images of one size
AlphaComposite(dst, src) ==
    [mode |-> "RGBA", size |-> dst.size,
     px |-> [p \in DOMAIN dst.px |-> BlendPixel(dst.px[p], src.px[p])]]

(***************************************************************************)
(* Colour strings.                                                         *)
(***************************************************************************)
HexDigits == <<"0", "1", "2", "3", "4", "5", "6", "7", "8", "9",
               "a", "b", "c", "d", "e", "f">>

\* str.lower() on the characters the model uses
Lower(ch) ==
    CASE ch = "A" -> "a" [] ch = "B" -> "b" [] ch = "C" -> "c"
      [] ch = "D" -> "d" [] ch = "E" -> "e" [] ch = "F" -> "f"
      [] OTHER -> ch

IsHexDigit(ch) == Lower(ch) \in Range(HexDigits)
HexVal(ch) == (CHOOSE k \in 1..16 : HexDigits[k] = Lower(ch)) - 1

\* int(t, 16) for the slices of at most two characters that line 43 passes:
\* surrounding blanks are stripped, one sign is allowed, and what is left must
\* be one or two hex digits; anything else raises ValueError.
StripBlanks(t) ==
    IF t # <<>> /\ t[1] = " " THEN Tail(t)
    ELSE IF t # <<>> /\ t[Len(t)] = " " THEN SubSeq(t, 1, Len(t) - 1)
    ELSE t

Unsigned(t) ==
    LET u == StripBlanks(StripBlanks(t))
    IN  IF u # <<>> /\ u[1] \in {"+", "-"} THEN Tail(u) ELSE u

Int16Ok(t) ==
    /\ Unsigned(t) # <<>>
    /\ \A k \in DOMAIN Unsigned(t) : IsHexDigit(Unsigned(t)[k])

Int16(t) ==
    LET u == StripBlanks(StripBlanks(t))
        d == Unsigned(t)
        mag == IF Len(d) = 1 THEN HexVal(d[1]) ELSE 16 * HexVal(d[1]) + HexVal(d[2])
    IN  IF u[1] = "-" THEN 0 - mag ELSE mag

\* line 43: tuple(int(background_color[i:i+2], 16) for i in (1, 3, 5))
BgColorOk(s) == \A i \in {1, 3, 5} : Int16Ok(Slice(s, i, i + 2))
BgColor(s) == <<Int16(Slice(s, 1, 3)), Int16(Slice(s, 3, 5)), Int16(Slice(s, 5, 7))>>

\* Mutant of Opacity: the percentage used as the alpha, unscaled.
Opacity_Unscaled(background_opacity) == background_opacity

\* line 45: int((background_opacity / 100) * 255); the float product truncates
\* to the same integer as the exact quotient for every percentage 0..100.
Opacity(background_opacity) == (background_opacity * 255) \div 100

\* ImageColor.colormap, the names the model uses
ColorNames == {<<"w", "h", "i", "t", "e">>, <<"b", "l", "a", "c", "k">>}
NamedColor(s) == IF s = <<"w", "h", "i", "t", "e">> THEN <<255, 255, 255>> ELSE <<0, 0, 0>>

LowerStr(s) == [k \in DOMAIN s |-> Lower(s[k])]
IsHashHex(s, n) ==
    /\ Len(s) = n + 1
    /\ s[1] = "#"
    /\ \A k \in 2..(n + 1) : IsHexDigit(s[k])

\* ImageColor.getrgb as draw.text(fill=font_color) uses it (line 71): a colour
\* name, #rgb, #rgba, #rrggbb or #rrggbbaa; anything else raises ValueError.
GetRgbOk(color) ==
    \/ LowerStr(color) \in ColorNames
    \/ \E n \in {3, 4, 6, 8} : IsHashHex(color, n)

\* ImageColor.getcolor(color, "RGB"): the alpha of a 4-channel form is dropped.
GetRgb(color) ==
    LET c == LowerStr(color)
        one(k) == 17 * HexVal(c[k])
        two(k) == 16 * HexVal(c[k]) + HexVal(c[k + 1])
    IN  IF c \in ColorNames THEN NamedColor(c)
        ELSE IF Len(c) \in {4, 5} THEN <<one(2), one(3), one(4)>>
        ELSE <<two(2), two(4), two(6)>>

(***************************************************************************)
(* Font resolution, app.py lines 16-23.                                    *)
(***************************************************************************)
PreferredFont == <<"Arial.ttf">>
AlternateFont == <<"/System/Library/Fonts/Arial.ttf">>
BuiltinFont == <<"load_default">>

\* ImageFont.truetype(path, size) raises unless the host has the font.
TrueTypeLoads(path, installed) == path[1] \in installed

\* Mutant of ResolveFont: the alternate location is tried before the preferred font.
ResolveFont_AlternateFirst(installed, font_size) ==
    IF TrueTypeLoads(AlternateFont, installed)
    THEN [attempts |-> AlternateFont,
          font |-> [source |-> AlternateFont[1], size |-> font_size]]
    ELSE IF TrueTypeLoads(PreferredFont, installed)
    THEN [attempts |-> AlternateFont \o PreferredFont,
          font |-> [source |-> PreferredFont[1], size |-> font_size]]
    ELSE [attempts |-> AlternateFont \o PreferredFont \o BuiltinFont,
          font |-> [source |-> BuiltinFont[1]]]

\* The nested try/except chain: the attempts made, in order, and the font chosen.
ResolveFont(installed, font_size) ==
    IF TrueTypeLoads(PreferredFont, installed)
    THEN [attempts |-> PreferredFont,
          font |-> [source |-> PreferredFont[1], size |-> font_size]]
    ELSE IF TrueTypeLoads(AlternateFont, installed)
    THEN [attempts |-> PreferredFont \o AlternateFont,
          font |-> [source |-> AlternateFont[1], size |-> font_size]]
    ELSE [attempts |-> PreferredFont \o AlternateFont \o BuiltinFont,
          font |-> [source |-> BuiltinFont[1]]]

(***************************************************************************)
(* add_text_to_image, app.py lines 7-73.                                   *)
(***************************************************************************)
spacing == 20

\* lines 30-31
TextWidth(text_bbox) == text_bbox[3] - text_bbox[1]
TextHeight(text_bbox) == text_bbox[4] - text_bbox[2]

\* line 35
TotalTextWidth(text_bbox) == TextWidth(text_bbox) + spacing

\* line 38
TextY(img_height, height_from_base, text_bbox) ==
    img_height - height_from_base - TextHeight(text_bbox)

\* lines 51-56
BackgroundCoords(img_width, y, text_bbox, background_padding) ==
    <<0, y - background_padding, img_width,
      y + TextHeight(text_bbox) + background_padding>>

\* lines 41-61: the band composited under the text
AddBackground(img_copy, y, text_bbox, c) ==
    LET overlay == Rectangle(ImageNew("RGBA", img_copy.size, <<0, 0, 0, 0>>),
                             BackgroundCoords(img_copy.size[1], y, text_bbox,
                                              c.background_padding),
                             Append(BgColor(c.background_color),
                                    Opacity(c.background_opacity)))
    IN  Convert(AlphaComposite(Convert(img_copy, "RGBA"), overlay), "RGB")

\* Mutant of NumRepetitions: the +2 overshoot is left out.
NumRepetitions_NoOvershoot(img_width, total_text_width) == img_width \div total_text_width

\* line 64
NumRepetitions(img_width, total_text_width) == (img_width \div total_text_width) + 2

\* lines 67-70: the x of every tile that is drawn, in loop order
DrawnTiles(img_width, total_text_width) ==
    LET xs == [i \in 1..NumRepetitions(img_width, total_text_width) |->
                   (i - 1) * total_text_width]
    IN  SelectSeq(xs, LAMBDA x : x < img_width)

\* Whether draw.text((x, y), text) inks pixel p: the text's bounding box moved
\* to (x, y) (the glyphs are taken as solid).
InGlyph(p, x, y, text_bbox) ==
    /\ x + text_bbox[1] <= p[1] /\ p[1] < x + text_bbox[3]
    /\ y + text_bbox[2] <= p[2] /\ p[2] < y + text_bbox[4]

\* Mutant of DrawText: ink outside the canvas is kept instead of clipped.
DrawText_Unclipped(im, tiles, y, text_bbox, ink) ==
    LET inked == {p \in (0..(im.size[1] + TextWidth(text_bbox)))
                         \X ((y + text_bbox[2])..(y + text_bbox[4] - 1)) :
                     \E k \in DOMAIN tiles : InGlyph(p, tiles[k], y, text_bbox)}
    IN  [im EXCEPT !.px =
            [p \in (DOMAIN im.px) \cup inked |-> IF p \in inked THEN ink ELSE im.px[p]]]

\* line 71 for every drawn tile
DrawText(im, tiles, y, text_bbox, ink) ==
    [im EXCEPT !.px =
        [p \in DOMAIN im.px |->
            IF \E k \in DOMAIN tiles : InGlyph(p, tiles[k], y, text_bbox)
            THEN ink ELSE im.px[p]]]

AddTextToImage(c, e) ==
    LET img_copy == ImageCopy(c.image)
        fr == ResolveFont(e.fonts, c.font_size)
        img_width == img_copy.size[1]
        img_height == img_copy.size[2]
        text_bbox == e.text_bbox
        y == TextY(img_height, c.height_from_base, text_bbox)
        tiles == DrawnTiles(img_width, TotalTextWidth(text_bbox))
        base == [font |-> fr.font, attempts |-> fr.attempts, y |-> y]
    IN  IF c.use_background /\ ~BgColorOk(c.background_color)
        THEN base @@ [status |-> "raised", error |-> "ValueError", at |-> 43]
        ELSE LET composited == IF c.use_background
                               THEN AddBackground(img_copy, y, text_bbox, c)
                               ELSE img_copy
             IN  IF tiles # <<>> /\ ~GetRgbOk(c.font_color)
                 THEN base @@ [status |-> "raised", error |-> "ValueError", at |-> 71]
                 ELSE base @@
                      [status |-> "returned",
                       opacity |-> IF c.use_background
                                   THEN Opacity(c.background_opacity) ELSE "unset",
                       composited |-> composited,
                       tiles |-> tiles,
                       image |-> DrawText(composited, tiles, y, text_bbox,
                                          GetRgb(c.font_color))]

(***************************************************************************)
(* The inputs of add_text_to_image.                                        *)
(***************************************************************************)
EmptyText == <<>>
SomeText == <<"H", "I">>

Black == <<"#", "0", "0", "0", "0", "0", "0">>
Blue == <<"#", "0", "A", "6", "4", "C", "8">>
Red == <<"#", "F", "F", "0", "0", "0", "0">>
White == <<"#", "F", "F", "F", "F", "F", "F">>

\* Source images: a plain white one and one whose pixels all differ.
GradientPixel(p) == <<(40 * p[1] + 10) % 256, (60 * p[2] + 20) % 256,
                      (30 * (p[1] + 2 * p[2]) + 5) % 256>>

SourceImage(w, h, kind) ==
    [mode |-> "RGB", size |-> <<w, h>>,
     px |-> [p \in Pixels(<<w, h>>) |->
                IF kind = "white" THEN <<255, 255, 255>> ELSE GradientPixel(p)]]

SourceImages(maxW, maxH) ==
    {SourceImage(w, h, kind) : w \in 1..maxW, h \in 1..maxH, kind \in {"white", "gradient"}}

\* draw.textbbox((0, 0), text, font): nothing for the empty text, otherwise a
\* box that starts at the left edge and may start below the top.
TextBboxes(text, maxW, maxH) ==
    IF text = EmptyText THEN {<<0, 0, 0, 0>>}
    ELSE {<<0, t, w, t + h>> : t \in 0..MaxBboxTop, w \in 1..maxW, h \in 1..maxH}

\* font_size slider of main, line 115
MinFontSize == 10
MaxFontSize == 100
DefaultFontSize == 40

FontFiles == {PreferredFont[1], AlternateFont[1]}

\* The defaults of the signature (lines 7-8) and of the offset slider (line 112).
DefaultCall ==
    [image |-> SourceImage(1, 1, "gradient"), text |-> SomeText,
     height_from_base |-> 100, font_size |-> DefaultFontSize,
     font_color |-> <<"w", "h", "i", "t", "e">>,
     use_background |-> TRUE, background_color |-> Black,
     background_opacity |-> 50, background_padding |-> 10]

DefaultEnv == [fonts |-> {}, text_bbox |-> <<0, 0, 1, 1>>, st_image |-> TRUE]

Pending == [status |-> "pending"]

\* No image is being worked on.
NoImage == [mode |-> "none"]

IdleMain ==
    /\ uploaded_files = <<>>
    /\ clear_files = FALSE
    /\ pc = "idle"
    /\ idx = 0
    /\ image = NoImage
    /\ messages = <<>>

NoArchive == [written |-> FALSE, entries |-> <<>>]

IdleZip ==
    /\ processed_images = <<>>
    /\ original_filenames = <<>>
    /\ zip_file = NoArchive

IdleRender ==
    /\ call = DefaultCall
    /\ env = DefaultEnv
    /\ ret = Pending

\* One call of add_text_to_image.
CallAddTextToImage ==
    /\ ret.status = "pending"
    /\ ret' = AddTextToImage(call, env)
    /\ UNCHANGED <<call, env, mainVars, zipVars>>

\* Pixel-level calls: small canvases, every offset, band and text box.
InitRender ==
    /\ \E im \in SourceImages(MaxImgW, MaxImgH), text \in {EmptyText, SomeText},
          hfb \in 0..MaxOffset, bg \in BOOLEAN :
          \E bc \in (IF bg THEN {Black, Blue} ELSE {Black}),
             op \in (IF bg THEN {0, 1, 50, 99, 100} ELSE {50}),
             pad \in (IF bg THEN 0..MaxPadding ELSE {0}),
             bbox \in TextBboxes(text, MaxTextW, MaxTextH) :
             /\ call = [image |-> im, text |-> text, height_from_base |-> hfb,
                        font_size |-> DefaultFontSize, font_color |-> Red,
                        use_background |-> bg, background_color |-> bc,
                        background_opacity |-> op, background_padding |-> pad]
             /\ env = [DefaultEnv EXCEPT !.text_bbox = bbox]
    /\ ret = Pending
    /\ IdleMain
    /\ IdleZip

SpecRender == InitRender /\ [][CallAddTextToImage]_vars

\* Tiling calls: one-row canvases of every width, text of every width.
InitTile ==
    /\ \E w \in 1..MaxTileImgW, tw \in 0..MaxTileTextW, bg \in BOOLEAN :
          /\ call = [DefaultCall EXCEPT
                        !.image = SourceImage(w, 1, "white"),
                        !.text = IF tw = 0 THEN EmptyText ELSE SomeText,
                        !.use_background = bg]
          /\ env = [DefaultEnv EXCEPT !.text_bbox = <<0, 0, tw, IF tw = 0 THEN 0 ELSE 1>>]
    /\ ret = Pending
    /\ IdleMain
    /\ IdleZip

SpecTile == InitTile /\ [][CallAddTextToImage]_vars

\* Font calls: every set of installed fonts, every font size of the slider.
InitFont ==
    /\ \E installed \in SUBSET FontFiles, fs \in MinFontSize..MaxFontSize :
          /\ call = [DefaultCall EXCEPT !.font_size = fs]
          /\ env = [DefaultEnv EXCEPT !.fonts = installed]
    /\ ret = Pending
    /\ IdleMain
    /\ IdleZip

SpecFont == InitFont /\ [][CallAddTextToImage]_vars

\* Colour calls: well-formed and malformed colour strings in both positions.
ColourStrings ==
    {Black, Blue, White, Red,
     <<>>,
     <<"#", "F", "F", "F">>,
     <<"#", "0", "0", "0", "0", "0">>,
     <<"#", "0", "0", "0", "0", "0", "0", "1">>,
     <<"#", "F", "F", "0", "0">>,
     <<"#", "G", "G", "0", "0", "0", "0">>,
     <<"#", "0", "0", "-", "1", "0", "0">>,
     <<"0", "0", "0", "0", "0", "0">>,
     <<"x", "0", "0", "0", "0", "0", "0">>,
     <<"0", "A", "6", "4", "C", "8", "#">>,
     <<"#", "F", "F", "0", "0", "0", "0", "F", "F">>,
     <<"w", "h", "i", "t", "e">>,
     <<"z", "z", "z">>}

InitColour ==
    /\ \E bc \in ColourStrings, fc \in ColourStrings, bg \in BOOLEAN :
          call = [DefaultCall EXCEPT !.background_color = bc, !.font_color = fc,
                                     !.use_background = bg]
    /\ env = DefaultEnv
    /\ ret = Pending
    /\ IdleMain
    /\ IdleZip

SpecColour == InitColour /\ [][CallAddTextToImage]_vars

(***************************************************************************)
(* create_zip_file, app.py lines 75-93.                                    *)
(***************************************************************************)
\* s.rfind(ch) + 1: the last position of ch in s, 0 when it has none
RFind(s, ch) ==
    IF \E k \in DOMAIN s : s[k] = ch
    THEN CHOOSE k \in DOMAIN s : s[k] = ch /\ \A j \in (k + 1)..Len(s) : s[j] # ch
    ELSE 0

\* Mutant of SplitExt: the split is made at the first dot instead of the last.
SplitExt_FirstDot(filename) ==
    LET dots == {k \in DOMAIN filename : filename[k] = "."}
        dot == IF dots = {} THEN 0 ELSE CHOOSE k \in dots : \A j \in dots : k <= j
    IN  IF dot > 1
        THEN <<SubSeq(filename, 1, dot - 1), SubSeq(filename, dot, Len(filename))>>
        ELSE <<filename, <<>>>>

\* os.path.splitext (posixpath): the extension starts at the last dot of the
\* last path component, unless only dots precede it there.
SplitExt(filename) ==
    LET sepIndex == RFind(filename, "/")
        dotIndex == RFind(filename, ".")
    IN  IF /\ dotIndex > sepIndex
           /\ \E k \in (sepIndex + 1)..(dotIndex - 1) : filename[k] # "."
        THEN <<SubSeq(filename, 1, dotIndex - 1),
               SubSeq(filename, dotIndex, Len(filename))>>
        ELSE <<filename, <<>>>>

ProcessedSuffix == <<"_", "p", "r", "o", "c", "e", "s", "s", "e", "d", ".", "p", "n", "g">>

\* lines 87-88
NewFilename(filename) == SplitExt(filename)[1] \o ProcessedSuffix

\* img.save(buffer, format='PNG'): the header and the pixels, row by row
PngSave(img) ==
    [format |-> "PNG", mode |-> img.mode, width |-> img.size[1], height |-> img.size[2],
     data |-> [k \in 1..(img.size[1] * img.size[2]) |->
                  img.px[<<(k - 1) % img.size[1], (k - 1) \div img.size[1]>>]]]

\* Image.open of such a buffer
PngOpen(png) ==
    [mode |-> png.mode, size |-> <<png.width, png.height>>,
     px |-> [p \in Pixels(<<png.width, png.height>>) |-> png.data[p[2] * png.width + p[1] + 1]]]

\* lines 80-90: one entry per pair of zip(processed_images, original_filenames),
\* appended in loop order; writestr appends also when the name is already there.
CreateZipFile(images, filenames) ==
    [k \in 1..Min(Len(images), Len(filenames)) |->
        [filename |-> NewFilename(filenames[k]),
         compress_type |-> "ZIP_DEFLATED",
         data |-> PngSave(images[k])]]

\* Sample file names: a.p, a.j, b.p, a, .a, a.b.p, d/a.p, d.e/a and a.
Filenames ==
    {<<"a", ".", "p">>,
     <<"a", ".", "j">>,
     <<"b", ".", "p">>,
     <<"a">>,
     <<".", "a">>,
     <<"a", ".", "b", ".", "p">>,
     <<"d", "/", "a", ".", "p">>,
     <<"d", ".", "e", "/", "a">>,
     <<"a", ".">>}

ZipImages == {SourceImage(1, 1, "white"), SourceImage(2, 1, "gradient")}

CallCreateZipFile ==
    /\ ~zip_file.written
    /\ zip_file' = [written |-> TRUE,
                    entries |-> CreateZipFile(processed_images, original_filenames)]
    /\ UNCHANGED <<processed_images, original_filenames, renderVars, mainVars>>

InitZip ==
    /\ \E n \in 0..MaxFiles :
          /\ processed_images \in [1..n -> ZipImages]
          /\ original_filenames \in [1..n -> Filenames]
    /\ zip_file = NoArchive
    /\ IdleMain
    /\ IdleRender

SpecZip == InitZip /\ [][CallCreateZipFile]_vars

(***************************************************************************)
(* main, app.py lines 95-244: one script run, and the rerun Clear All asks  *)
(* for.                                                                   *)
(***************************************************************************)
MaxBatch == 15

\* The k-th uploaded file: a.p, a.j, b.p, b.j, ... each holding a 1x1 picture
\* of its own colour; every third one has an alpha channel.
Letters == <<"a", "b", "c", "d", "e", "f", "g", "h", "i", "j">>

UploadedFile(k) ==
    [name |-> <<Letters[(k + 1) \div 2], ".", IF k % 2 = 1 THEN "p" ELSE "j">>,
     content |-> [mode |-> IF k % 3 = 0 THEN "RGBA" ELSE "RGB",
                  size |-> <<1, 1>>,
                  px |-> (<<0, 0>> :> IF k % 3 = 0 THEN <<k, 2 * k, 3 * k, 255>>
                                                   ELSE <<k, 2 * k, 3 * k>>)]]

Upload(n) == [k \in 1..n |-> UploadedFile(k)]

\* lines 174-179: an image with alpha is pasted on white through its alpha.
ToRgb(im) ==
    IF im.mode = "RGBA"
    THEN [mode |-> "RGB", size |-> im.size,
          px |-> [p \in DOMAIN im.px |->
                     [c \in 1..3 |->
                         ShiftForDiv255(255 * (255 - im.px[p][4])
                                        + im.px[p][c] * im.px[p][4] + 128)]]]
    ELSE Convert(im, "RGB")

\* The sidebar widgets at their defaults, lines 107-123.
SidebarCall(img) ==
    [image |-> img, text |-> <<"S", "a", "m", "p", "l", "e", " ", "T", "e", "x", "t">>,
     height_from_base |-> 100, font_size |-> DefaultFontSize, font_color |-> White,
     use_background |-> TRUE, background_color |-> Black,
     background_opacity |-> 50, background_padding |-> 10]

\* line 203: the error names the file; the exception came from processing the
\* picture or from showing it.
ErrorAbout(name, during) == [kind |-> "error", about |-> name, during |-> during]

\* Mutant of BatchTooLarge: the limit is compared one too high.
BatchTooLarge_OffByOne(files) == Len(files) > MaxBatch + 1

\* line 145
BatchTooLarge(files) == Len(files) > MaxBatch

\* lines 139-142: Clear All flips the flag and reruns; the uploader gets a
\* new key and comes up empty.
ClearAllImages ==
    /\ pc = "run"
    /\ uploaded_files # <<>>
    /\ clear_files' = ~clear_files
    /\ uploaded_files' = <<>>
    /\ UNCHANGED <<pc, idx, image, messages, renderVars, zipVars>>

\* lines 243-244
ShowInfo ==
    /\ pc = "run"
    /\ uploaded_files = <<>>
    /\ messages' = Append(messages, [kind |-> "info", about |-> "upload"])
    /\ pc' = "done"
    /\ UNCHANGED <<uploaded_files, clear_files, idx, image, renderVars, zipVars>>

\* lines 145-147: st.error and st.stop
RejectBatch ==
    /\ pc = "run"
    /\ uploaded_files # <<>>
    /\ BatchTooLarge(uploaded_files)
    /\ messages' = Append(messages, [kind |-> "error", about |-> "too many", during |-> "upload"])
    /\ pc' = "stopped"
    /\ UNCHANGED <<uploaded_files, clear_files, idx, image, renderVars, zipVars>>

\* line 149
AcceptBatch ==
    /\ pc = "run"
    /\ uploaded_files # <<>>
    /\ ~BatchTooLarge(uploaded_files)
    /\ messages' = Append(messages, [kind |-> "success", about |-> "uploaded"])
    /\ pc' = "uploaded"
    /\ UNCHANGED <<uploaded_files, clear_files, idx, image, renderVars, zipVars>>

\* lines 152-161: Process Images is clicked
ProcessImages ==
    /\ pc = "uploaded"
    /\ processed_images' = <<>>
    /\ original_filenames' = <<>>
    /\ idx' = 1
    /\ pc' = "open"
    /\ UNCHANGED <<uploaded_files, clear_files, image, messages, zip_file, renderVars>>

\* Mutant of OpenImage: a file that does not decode ends the loop.
OpenImage_AbortsBatch ==
    /\ pc = "open"
    /\ idx <= Len(uploaded_files)
    /\ \E decodes \in BOOLEAN :
          IF decodes
          THEN /\ image' = ToRgb(uploaded_files[idx].content)
               /\ pc' = "render"
               /\ UNCHANGED <<idx, messages>>
          ELSE /\ messages' = Append(messages, ErrorAbout(uploaded_files[idx].name, "processing"))
               /\ idx' = Len(uploaded_files) + 1
               /\ UNCHANGED <<pc, image>>
    /\ UNCHANGED <<uploaded_files, clear_files, renderVars, zipVars>>

\* lines 163-179, 202-203: Image.open and the conversion to RGB; an exception
\* is reported and the loop goes on with the next file.
OpenImage ==
    /\ pc = "open"
    /\ idx <= Len(uploaded_files)
    /\ \E decodes \in BOOLEAN :
          IF decodes
          THEN /\ image' = ToRgb(uploaded_files[idx].content)
               /\ pc' = "render"
               /\ UNCHANGED <<idx, messages>>
          ELSE /\ messages' = Append(messages, ErrorAbout(uploaded_files[idx].name, "processing"))
               /\ idx' = idx + 1
               /\ UNCHANGED <<pc, image>>
    /\ UNCHANGED <<uploaded_files, clear_files, renderVars, zipVars>>

\* lines 181-203: add_text_to_image, the two appends and st.image; an exception
\* is reported and the loop goes on with the next file. One raised by st.image
\* comes after the appends (st.image works or fails for a whole run).
RenderImage ==
    /\ pc = "render"
    /\ \E renders \in BOOLEAN :
          LET r == AddTextToImage(SidebarCall(image), env)
          IN  IF renders /\ r.status = "returned"
              THEN /\ processed_images' = Append(processed_images, r.image)
                   /\ original_filenames' =
                         Append(original_filenames, uploaded_files[idx].name)
                   /\ messages' =
                         IF env.st_image THEN messages
                         ELSE Append(messages,
                                     ErrorAbout(uploaded_files[idx].name, "display"))
              ELSE /\ messages' = Append(messages, ErrorAbout(uploaded_files[idx].name, "processing"))
                   /\ UNCHANGED <<processed_images, original_filenames>>
    /\ idx' = idx + 1
    /\ pc' = "open"
    /\ image' = NoImage
    /\ UNCHANGED <<uploaded_files, clear_files, zip_file, renderVars>>

\* lines 205-219: after the loop the archive is built and offered when at
\* least one image was processed.
FinishBatch ==
    /\ pc = "open"
    /\ idx > Len(uploaded_files)
    /\ IF processed_images # <<>>
       THEN /\ messages' = Append(messages, [kind |-> "success", about |-> "processed"])
            /\ zip_file' = [written |-> TRUE,
                            entries |-> CreateZipFile(processed_images,
                                                      original_filenames)]
       ELSE UNCHANGED <<messages, zip_file>>
    /\ pc' = "finished"
    /\ UNCHANGED <<uploaded_files, clear_files, idx, image, processed_images,
                   original_filenames, renderVars>>

InitMain ==
    /\ \E n \in 0..MaxUpload : uploaded_files = Upload(n)
    /\ clear_files = FALSE
    /\ pc = "run"
    /\ idx = 0
    /\ image = NoImage
    /\ messages = <<>>
    /\ IdleZip
    /\ call = DefaultCall
    /\ \E shows \in BOOLEAN : env = [DefaultEnv EXCEPT !.st_image = shows]
    /\ ret = Pending

NextMain ==
    \/ ClearAllImages
    \/ ShowInfo
    \/ RejectBatch
    \/ AcceptBatch
    \/ ProcessImages
    \/ OpenImage
    \/ RenderImage
    \/ FinishBatch

SpecMain == InitMain /\ [][NextMain]_vars

(***************************************************************************)
(* Properties of add_text_to_image.                                        *)
(***************************************************************************)
Returned == ret.status = "returned"

\* The rows and pixels the properties speak about, from the call's arguments.
BandTop == call.image.size[2] - call.height_from_base
           - (env.text_bbox[4] - env.text_bbox[2]) - call.background_padding
BandBottom == call.image.size[2] - call.height_from_base + call.background_padding
TextTop == call.image.size[2] - call.height_from_base
           - (env.text_bbox[4] - env.text_bbox[2])

InSomeGlyph(p) ==
    \E x \in 0..call.image.size[1] :
        /\ x % (env.text_bbox[3] - env.text_bbox[1] + 20) = 0
        /\ x + env.text_bbox[1] <= p[1] /\ p[1] < x + env.text_bbox[3]
        /\ TextTop + env.text_bbox[2] <= p[2] /\ p[2] < TextTop + env.text_bbox[4]

ConfiguredRgb(colour) ==
    CASE colour = Black -> <<0, 0, 0>>
      [] colour = Blue -> <<10, 100, 200>>
      [] colour = Red -> <<255, 0, 0>>
      [] colour = White -> <<255, 255, 255>>

\* C1: a call with the empty text returns an image pixel-identical to its input.
C1_EmptyTextIsIdentity ==
    (Returned /\ call.text = EmptyText) =>
        /\ ret.image.size = call.image.size
        /\ ret.image.px = call.image.px

\* C7: with the background enabled the percentage becomes an alpha in 0..255
\* (0 gives 0, 100 gives 255); after the call every pixel strictly inside the
\* band and outside the glyphs is the background colour at opacity 100 and
\* the input pixel at opacity 0; the background step changes no pixel outside
\* the band.
C7_BackgroundBand ==
    (Returned /\ call.use_background) =>
        /\ ret.opacity \in 0..255
        /\ call.background_opacity = 0 => ret.opacity = 0
        /\ call.background_opacity = 100 => ret.opacity = 255
        /\ \A p \in Pixels(call.image.size) :
              /\ (BandTop < p[2] /\ p[2] < BandBottom /\ ~InSomeGlyph(p)) =>
                    /\ call.background_opacity = 100 =>
                          ret.image.px[p] = ConfiguredRgb(call.background_color)
                    /\ call.background_opacity = 0 =>
                          ret.image.px[p] = call.image.px[p]
              /\ (p[2] < BandTop \/ p[2] > BandBottom) =>
                    ret.composited.px[p] = call.image.px[p]

\* C7 witness: an opaque band has repainted a pixel beside the glyphs, and
\* another pixel of the same canvas lies outside the band.
C7_Witness ==
    /\ Returned /\ call.use_background /\ call.background_opacity = 100
    /\ call.text = SomeText
    /\ \E p, q \in Pixels(call.image.size) :
          /\ BandTop < p[2] /\ p[2] < BandBottom /\ ~InSomeGlyph(p)
          /\ call.image.px[p] # ConfiguredRgb(call.background_color)
          /\ ret.image.px[p] = ConfiguredRgb(call.background_color)
          /\ q[2] < BandTop

\* C8: a call that returns gives back a canvas of the input's width and
\* height, with and without the background, also when the band or the text
\* lies partly or wholly outside the canvas.
C8_SameSize ==
    Returned =>
        /\ ret.image.size = call.image.size
        /\ DOMAIN ret.image.px = Pixels(call.image.size)
        /\ ret.image.mode = "RGB"

\* C8 witness: the band starts above the canvas and ends inside it, and the
\* text box starts above the canvas.
C8_Witness ==
    /\ Returned /\ call.use_background /\ call.text = SomeText
    /\ BandTop < 0 /\ TextTop < 0 /\ BandBottom >= 0
    /\ BandBottom < call.image.size[2]

\* C5: with tile width T = text width + 20 on a canvas of width W, the tiles
\* drawn are the indices 0..n-1 for some n with n * T >= W and
\* n <= floor(W / T) + 2, and every drawn tile starts at an x in 0..W-1.
C5_TileCoverage ==
    Returned =>
        LET W == call.image.size[1]
            T == (env.text_bbox[3] - env.text_bbox[1]) + 20
            n == Len(ret.tiles)
        IN  /\ n * T >= W
            /\ n <= (W \div T) + 2
            /\ \A k \in 1..n : ret.tiles[k] = (k - 1) * T
            /\ \A k \in 1..n : 0 <= ret.tiles[k] /\ ret.tiles[k] < W

\* C5 witness: a canvas whose width is a multiple of the tile width, where the
\* loop skips the tile that would start at the right edge.
C5_Witness ==
    /\ Returned
    /\ call.image.size[1] = 3 * (env.text_bbox[3] - env.text_bbox[1] + 20)
    /\ ret.tiles = <<0, env.text_bbox[3] - env.text_bbox[1] + 20,
                     2 * (env.text_bbox[3] - env.text_bbox[1] + 20)>>

\* C9: the font sources are tried in the order preferred, alternate, built-in;
\* the first that loads is used, a later one is tried only after every
\* earlier one failed, and the call never fails for want of a font.
C9_FontFallback ==
    ret.status # "pending" =>
        LET order == <<"Arial.ttf", "/System/Library/Fonts/Arial.ttf", "load_default">>
            n == Len(ret.attempts)
        IN  /\ n \in 1..3
            /\ ret.attempts = SubSeq(order, 1, n)
            /\ \A k \in 1..(n - 1) : order[k] \notin env.fonts
            /\ n < 3 => order[n] \in env.fonts
            /\ ret.font.source = order[n]
            /\ Returned

\* C9 witness: only the alternate location has the font, and it is used after
\* the preferred one failed.
C9_Witness ==
    /\ Returned
    /\ env.fonts = {"/System/Library/Fonts/Arial.ttf"}
    /\ ret.attempts = <<"Arial.ttf", "/System/Library/Fonts/Arial.ttf">>
    /\ ret.font.source = "/System/Library/Fonts/Arial.ttf"

WellFormedColour(s) ==
    /\ Len(s) = 7
    /\ s[1] = "#"
    /\ \A k \in 2..7 : s[k] \in {"0", "1", "2", "3", "4", "5", "6", "7", "8", "9",
                                 "a", "b", "c", "d", "e", "f",
                                 "A", "B", "C", "D", "E", "F"}

\* C6: a call whose background or font colour is not '#' followed by exactly
\* six hex digits fails, whether or not the background is enabled.
C6_MalformedColourRejected ==
    Returned =>
        /\ WellFormedColour(call.background_color)
        /\ WellFormedColour(call.font_color)

(***************************************************************************)
(* Properties of create_zip_file.                                          *)
(***************************************************************************)
Archived == zip_file.written

\* The sample names with the extension stripped.
Stem(filename) ==
    CASE filename = <<"a", ".", "p">> -> <<"a">>
      [] filename = <<"a", ".", "j">> -> <<"a">>
      [] filename = <<"b", ".", "p">> -> <<"b">>
      [] filename = <<"a">> -> <<"a">>
      [] filename = <<".", "a">> -> <<".", "a">>
      [] filename = <<"a", ".", "b", ".", "p">> -> <<"a", ".", "b">>
      [] filename = <<"d", "/", "a", ".", "p">> -> <<"d", "/", "a">>
      [] filename = <<"d", ".", "e", "/", "a">> -> <<"d", ".", "e", "/", "a">>
      [] filename = <<"a", ".">> -> <<"a">>

\* C2: the entry names of an archive are pairwise distinct.
C2_EntryNamesDistinct ==
    Archived =>
        \A i, j \in DOMAIN zip_file.entries :
            i # j => zip_file.entries[i].filename # zip_file.entries[j].filename

\* C3: n inputs give exactly n entries in input order; the i-th entry holds
\* the i-th image and is named by the i-th file name without its extension
\* plus "_processed.png"; no input gives an archive without entries.
C3_EntriesFollowInputs ==
    Archived =>
        /\ Len(zip_file.entries) = Len(processed_images)
        /\ Len(zip_file.entries) = Len(original_filenames)
        /\ \A i \in DOMAIN zip_file.entries :
              /\ zip_file.entries[i].data.format = "PNG"
              /\ PngOpen(zip_file.entries[i].data) = processed_images[i]
              /\ zip_file.entries[i].filename = Stem(original_filenames[i]) \o <<"_", "p", "r", "o", "c", "e", "s", "s", "e", "d", ".", "p", "n", "g">>

\* C3 witness: two different images under names with different stems, one of
\* them with two dots, archived in input order.
C3_Witness ==
    /\ Archived
    /\ Len(zip_file.entries) = 2
    /\ processed_images[1] # processed_images[2]
    /\ original_filenames = <<<<"a", ".", "b", ".", "p">>, <<"d", "/", "a", ".", "p">>>>
    /\ zip_file.entries[1].filename = <<"a", ".", "b", "_", "p", "r", "o", "c", "e", "s", "s", "e", "d", ".", "p", "n", "g">>
    /\ zip_file.entries[2].filename = <<"d", "/", "a", "_", "p", "r", "o", "c", "e", "s", "s", "e", "d", ".", "p", "n", "g">>

(***************************************************************************)
(* Properties of main.                                                     *)
(***************************************************************************)
InBatch == pc \in {"open", "render", "finished"}

\* The files the loop has gone through, and those reported as failed to
\* decode or render.
Visited == IF InBatch THEN idx - 1 ELSE 0
ReportedNames ==
    {messages[m].about : m \in {i \in DOMAIN messages :
                                    /\ messages[i].kind = "error"
                                    /\ messages[i].during = "processing"}}
Reported(k) == uploaded_files[k].name \in ReportedNames

\* C4: whatever files fail to decode or render, the loop goes through every
\* file; processed_images and original_filenames have one length and hold
\* exactly the files that did not fail, in submission order, each picture
\* with its own name; a failed file is reported and has no entry.
C4_FailuresAreIsolated ==
    /\ Len(processed_images) = Len(original_filenames)
    /\ InBatch =>
          LET failed == ReportedNames
              kept == SelectSeq([k \in 1..Visited |-> k],
                                LAMBDA k : uploaded_files[k].name \notin failed)
          IN  /\ Len(original_filenames) = Len(kept)
              /\ \A j \in DOMAIN kept :
                    /\ original_filenames[j] = uploaded_files[kept[j]].name
                    /\ processed_images[j].px[<<0, 0>>]
                          = <<kept[j], 2 * kept[j], 3 * kept[j]>>
    /\ pc = "finished" => Visited = Len(uploaded_files)

\* C4 witness: the second of four files failed, and the loop went on to keep
\* the third and to report the fourth.
C4_Witness ==
    /\ pc = "finished"
    /\ Len(uploaded_files) = 4
    /\ Reported(2) /\ Reported(4)
    /\ original_filenames = <<uploaded_files[1].name, uploaded_files[3].name>>
    /\ Len(zip_file.entries) = 2

\* C10: with more than 15 files the run reports an error and stops before
\* anything is decoded, rendered or archived; images are rendered and an
\* archive is built only in runs with 1 to 15 files.
C10_BatchLimit ==
    /\ (InBatch \/ image # NoImage \/ processed_images # <<>> \/ zip_file.written)
          => Len(uploaded_files) \in 1..15
    /\ (Len(uploaded_files) > 15 /\ pc # "run") =>
          /\ pc = "stopped"
          /\ \E m \in DOMAIN messages : messages[m].kind = "error"
          /\ image = NoImage /\ processed_images = <<>> /\ ~zip_file.written

\* C10 witness: sixteen files were uploaded and the run stopped with the error.
C10_Witness ==
    /\ pc = "stopped"
    /\ Len(uploaded_files) = 16
    /\ messages = <<[kind |-> "error", about |-> "too many", during |-> "upload"]>>
    /\ processed_images = <<>> /\ ~zip_file.written

====
